---- MODULE Spec2Model ----
(***************************************************************************)
(* A model of the three operational scripts of the repository:             *)
(*   scripts/data_quality_check.py  (DataQualityChecker, main)             *)
(*   scripts/load_data.py           (loader pipeline, main)                *)
(*   scripts/eda_analysis.py        (SteelCompanyEDA, main)                *)
(* One run of one script is one behaviour: Init picks the script, and the  *)
(* actions are the steps of its main().  The warehouse (BigQuery) and the  *)
(* local file system are the environment: every call to them either        *)
(* returns a value drawn from a bounded set or raises.                     *)
(* Timestamps (datetime.now()) and the text of log lines are left out;     *)
(* log holds one tag per logger call the properties speak about.           *)
(***************************************************************************)
EXTENDS Integers, Sequences, FiniteSets, TLC

VARIABLES
    script,          \* which script's main() this run executes
    pc,              \* position of the run in that script
    calls,           \* functions entered so far, in call order
    log,             \* tags of the log lines emitted so far, in order
    files,           \* artifact files written to local disk
    exc,             \* the exception propagating to / out of main ("none" if none)
    exit,            \* "running", "ok" (main returned, exit code 0), "raised" (non-zero)
    failures,        \* steps in which a warehouse or I/O call raised
    i,               \* data_quality_check: loop index into the registered checks
    response,        \* data_quality_check: what the warehouse answered to the running check
    result,          \* data_quality_check: result of check_function() ("raised": it raised)
    checks,          \* data_quality_check: report['checks'], in insertion order
    overall_score,   \* data_quality_check: report['overall_score'] (-1: not yet set)
    summary,         \* data_quality_check: report['summary']
    load_job,        \* load_data: the load job, as the warehouse holds it
    success,         \* load_data: main's variable success ("unset", "True", "False")
    polls,           \* load_data: iterations of the poll loop (saturating)
    quality_metrics, \* eda_analysis: columns with an entry in quality_metrics
    eda_report       \* eda_analysis: keys of the summary report written

common == <<script, pc, calls, log, files, exc, exit, failures>>
dqVars == <<i, response, result, checks, overall_score, summary>>
loaderVars == <<load_job, success, polls>>
edaVars == <<quality_metrics, eda_report>>
vars == <<script, pc, calls, log, files, exc, exit, failures, i, response, result, checks,
          overall_score, summary, load_job, success, polls, quality_metrics,
          eda_report>>

----------------------------------------------------------------------------
(* Bounds of the model *)

\* largest COUNT(*) the completeness query reports
MaxTotal == 100
\* largest number of NULLs per measured field in the completeness query
MaxMissing == 6
\* largest hours_since_update the freshness query reports
MaxHours == 25
\* largest number of rows (days) of the consistency window
MaxDays == 3
\* largest daily record count in the consistency window
MaxDaily == 3
\* largest (abstract) value of the moving_avg_7d column
MaxAvg == 2
\* largest row count of a dbt model table
MaxCount == 2
\* largest number of columns of the analysed table
MaxCols == 3
\* the poll counter saturates here
MaxPolls == 4

(* Program constants *)

\* if hours_since < 24
FreshnessMaxHours == 24
\* if timestamp_completeness > 95 and filename_completeness > 95
CompletenessThreshold == 95
\* if coefficient_variation < 50
ConsistencyMaxCV == 50
\* LIMIT 30
WindowLimit == 30
\* if quality_score >= 80 / elif quality_score >= 60
ExcellentScore == 80
AcceptableScore == 60
\* for column in columns[:10]
ColumnScanLimit == 10

----------------------------------------------------------------------------
(* Helpers *)

Min(a, b) == IF a < b THEN a ELSE b

RECURSIVE SumSeq(_)
SumSeq(s) == IF s = <<>> THEN 0 ELSE Head(s) + SumSeq(Tail(s))

\* all sequences over S of length 0..n
SeqsUpTo(S, n) == UNION {[1..k -> S] : k \in 0..n}

\* the value of a key the dict does not hold
Absent == "<absent>"

----------------------------------------------------------------------------
(* data_quality_check.py: the registered checks and what the warehouse may answer *)

Checks == <<"data_freshness", "data_completeness", "data_consistency", "dbt_models">>

models_to_check == <<"stg_cdo_challenge", "int_daily_metrics", "mart_business_insights">>

Raise == [kind |-> "raise"]

\* MAX(...) without GROUP BY yields exactly one row; hours_since_update is NULL on
\* an empty table
FreshnessResponses ==
    {Raise, [kind |-> "null_row"]}
    \cup {[kind |-> "row", hours_since_update |-> h] : h \in 0..MaxHours}

CompletenessResponses ==
    {Raise}
    \cup {r \in {[kind |-> "row", total_records |-> t, valid_timestamps |-> t - a,
                  valid_filenames |-> t - b, valid_loadtimes |-> t - c] :
                    t \in 0..MaxTotal, a \in 0..MaxMissing, b \in 0..MaxMissing,
                    c \in 0..MaxMissing} :
            r.valid_timestamps >= 0 /\ r.valid_filenames >= 0
                /\ r.valid_loadtimes >= 0}

\* one row per day, newest first; COUNT(*) of a group is at least 1
ConsistencyResponses ==
    {Raise}
    \cup {[kind |-> "df", df |-> d] :
            d \in SeqsUpTo([daily_records : 1..MaxDaily, moving_avg_7d : 1..MaxAvg],
                           Min(MaxDays, WindowLimit))}

DbtResponses ==
    {[kind |-> "models", tables |-> t] :
        t \in [1..Len(models_to_check) ->
                {[kind |-> "raise", record_count |-> 0]}
                \cup {[kind |-> "row", record_count |-> c] : c \in 0..MaxCount}]}

Responses(check_name) ==
    CASE check_name = "data_freshness" -> FreshnessResponses
      [] check_name = "data_completeness" -> CompletenessResponses
      [] check_name = "data_consistency" -> ConsistencyResponses
      [] check_name = "dbt_models" -> DbtResponses

----------------------------------------------------------------------------
(* data_quality_check.py: the check functions.  Each returns the Python     *)
(* boolean the code returns for the warehouse's answer resp; an exception    *)
(* raised inside its try block is caught there and turned into False.        *)

\* (valid / total) * 100 > threshold, for total > 0, without the division
completeness_gt(valid, total, threshold) == valid * 100 > threshold * total

\* check_data_freshness, had the comparison been hours_since <= 24
check_data_freshness_at_most(resp) ==
    IF resp.kind = "raise" THEN FALSE
    ELSE IF resp.kind = "null_row" THEN FALSE
    ELSE resp.hours_since_update <= FreshnessMaxHours

check_data_freshness(resp) ==
    IF resp.kind = "raise" THEN FALSE                 \* except Exception: return False
    ELSE IF resp.kind = "null_row" THEN FALSE         \* f"{None:.1f}" raises TypeError
    ELSE resp.hours_since_update < FreshnessMaxHours

check_data_completeness(resp) ==
    IF resp.kind = "raise" THEN FALSE                 \* except Exception: return False
    ELSE IF resp.total_records = 0 THEN FALSE         \* ZeroDivisionError, caught
    ELSE /\ completeness_gt(resp.valid_timestamps, resp.total_records,
                            CompletenessThreshold)
         /\ completeness_gt(resp.valid_filenames, resp.total_records,
                            CompletenessThreshold)

\* stats_column, had the code taken the smoothed column for the statistics
stats_column_moving_avg(df) == [k \in 1..Len(df) |-> df[k].moving_avg_7d]

\* the column of df the statistics are computed on: df['daily_records']
stats_column(df) == [k \in 1..Len(df) |-> df[k].daily_records]

\* Series.mean(): sum / n, as the pair <<numerator, denominator>>
series_mean(xs) == <<SumSeq(xs), Len(xs)>>

\* Series.std() squared (pandas' default ddof = 1), for Len(xs) >= 2, as a pair:
\* sum((x - mean)^2) / (n - 1) = sum((n*x - S)^2) / (n^2 * (n - 1))
series_var(xs) ==
    LET n == Len(xs)
        S == SumSeq(xs)
    IN  <<SumSeq([k \in 1..n |-> (n * xs[k] - S) * (n * xs[k] - S)]), n * n * (n - 1)>>

\* (std / mean) * 100 < limit.  With one row std is NaN and the comparison is
\* False; otherwise both sides are non-negative and are compared squared.
coefficient_variation_lt(xs, limit) ==
    IF Len(xs) < 2 THEN FALSE
    ELSE LET v == series_var(xs)
             m == series_mean(xs)
         IN  v[1] * m[2] * m[2] * 100 * 100 < limit * limit * m[1] * m[1] * v[2]

check_data_consistency(resp) ==
    IF resp.kind = "raise" THEN FALSE                 \* except Exception: return False
    ELSE IF Len(resp.df) = 0 THEN FALSE
    ELSE coefficient_variation_lt(stats_column(resp.df), ConsistencyMaxCV)

\* dbt_results, had the except branch not stored results[model] = 0: the model
\* is then missing from results and all(...) does not see it, as if it had rows
dbt_results_skipping_failed(resp) ==
    [k \in 1..Len(models_to_check) |->
        IF resp.tables[k].kind = "raise" THEN 1 ELSE resp.tables[k].record_count]

\* results[model]: the row's record_count, or 0 when the model's query raised
dbt_results(resp) ==
    [k \in 1..Len(models_to_check) |->
        IF resp.tables[k].kind = "raise" THEN 0 ELSE resp.tables[k].record_count]

check_dbt_models(resp) ==
    \A k \in 1..Len(models_to_check) : dbt_results(resp)[k] > 0

check_function(check_name, resp) ==
    CASE check_name = "data_freshness" -> check_data_freshness(resp)
      [] check_name = "data_completeness" -> check_data_completeness(resp)
      [] check_name = "data_consistency" -> check_data_consistency(resp)
      [] check_name = "dbt_models" -> check_dbt_models(resp)

\* whether a warehouse call raised while the check was evaluated
query_raised(resp) ==
    IF resp.kind = "models"
    THEN \E k \in 1..Len(models_to_check) : resp.tables[k].kind = "raise"
    ELSE resp.kind = "raise"

----------------------------------------------------------------------------
(* data_quality_check.py: generate_quality_report and main *)

Entry(check_name, status, error) ==
    [name |-> check_name, status |-> status, error |-> error]

\* 'passed' if result else 'failed'
status_of(truthy) == IF truthy THEN "passed" ELSE "failed"

\* passed_checks, had the code counted every result that is not 'failed'
passed_checks_not_failed(chk) ==
    Cardinality({k \in 1..Len(chk) : chk[k].status # "failed"})

\* sum(1 for check in report['checks'].values() if check['status'] == 'passed')
passed_checks(chk) == Cardinality({k \in 1..Len(chk) : chk[k].status = "passed"})

\* (passed_checks / total_checks) * 100; exact for the four registered checks
quality_score(passed, total) == (passed * 100) \div total

\* the tier logged for a score
tier(score) ==
    IF score >= ExcellentScore THEN "EXCELENTE"
    ELSE IF score >= AcceptableScore THEN "ACEPTABLE"
    ELSE "REQUIERE ATENCION"

NoSummary ==
    [total_checks |-> -1, passed_checks |-> -1, failed_checks |-> -1,
     quality_score |-> -1]

\* DataQualityChecker.__init__: bigquery.Client(...) returns or raises
DataQualityChecker_init ==
    /\ script = "data_quality_check"
    /\ pc = "main"
    /\ calls' = Append(calls, "DataQualityChecker.__init__")
    /\ \/ /\ log' = Append(log, "client_initialized")
          /\ pc' = "run_checks"
          /\ UNCHANGED <<exc, failures>>
       \/ /\ log' = Append(log, "init_error")
          /\ exc' = "client_error"
          /\ failures' = failures \cup {"client"}
          /\ pc' = "main_except"
    /\ UNCHANGED <<script, files, exit, dqVars, loaderVars, edaVars>>

\* result = check_function(), returning: the check runs its query (or queries)
\* and hands back True or False
CallCheck ==
    /\ script = "data_quality_check"
    /\ pc = "run_checks"
    /\ i <= Len(Checks)
    /\ \E resp \in Responses(Checks[i]) :
         /\ response' = resp
         /\ result' = IF check_function(Checks[i], resp) THEN "True" ELSE "False"
         /\ failures' = IF query_raised(resp) THEN failures \cup {Checks[i]}
                        ELSE failures
    /\ calls' = Append(calls, Checks[i])
    /\ pc' = "record"
    /\ UNCHANGED <<script, log, files, exc, exit, i, checks, overall_score, summary,
                   loaderVars, edaVars>>

\* result = check_function(), raising: an exception that escapes the check's own
\* handlers (one raised outside its try blocks)
CallCheckRaises ==
    /\ script = "data_quality_check"
    /\ pc = "run_checks"
    /\ i <= Len(Checks)
    /\ response' = [kind |-> "escaped"]
    /\ result' = "raised"
    /\ failures' = failures \cup {Checks[i]}
    /\ calls' = Append(calls, Checks[i])
    /\ pc' = "record"
    /\ UNCHANGED <<script, log, files, exc, exit, i, checks, overall_score, summary,
                   loaderVars, edaVars>>

\* RecordResult, had the except branch left the loop after recording the error
RecordResult_break_on_error ==
    /\ script = "data_quality_check"
    /\ pc = "record"
    /\ \/ /\ result \in {"True", "False"}
          /\ checks' = Append(checks, Entry(Checks[i], status_of(result = "True"),
                                            Absent))
          /\ i' = i + 1
       \/ /\ result = "raised"
          /\ checks' = Append(checks, Entry(Checks[i], "error", "str(e)"))
          /\ i' = Len(Checks) + 1
    /\ result' = "none"
    /\ response' = [kind |-> "none"]
    /\ pc' = "run_checks"
    /\ UNCHANGED <<script, calls, log, files, exc, exit, failures, overall_score,
                   summary, loaderVars, edaVars>>

\* the rest of the iteration: the entry of report['checks'] for the check, written
\* by the try body or by the except branch; the check's locals are gone
RecordResult ==
    /\ script = "data_quality_check"
    /\ pc = "record"
    /\ \/ /\ result \in {"True", "False"}
          /\ checks' = Append(checks, Entry(Checks[i], status_of(result = "True"),
                                            Absent))
       \/ /\ result = "raised"
          /\ checks' = Append(checks, Entry(Checks[i], "error", "str(e)"))
    /\ i' = i + 1
    /\ result' = "none"
    /\ response' = [kind |-> "none"]
    /\ pc' = "run_checks"
    /\ UNCHANGED <<script, calls, log, files, exc, exit, failures, overall_score,
                   summary, loaderVars, edaVars>>

\* ComputeScore, had failed_checks counted only the results with status 'failed'
ComputeScore_failed_status_only ==
    /\ script = "data_quality_check"
    /\ pc = "run_checks"
    /\ i > Len(Checks)
    /\ LET passed == passed_checks(checks)
           total == Len(checks)
           score == quality_score(passed, total)
       IN  /\ overall_score' = score
           /\ summary' = [total_checks |-> total, passed_checks |-> passed,
                          failed_checks |->
                              Cardinality({k \in 1..total : checks[k].status = "failed"}),
                          quality_score |-> score]
    /\ pc' = "save_report"
    /\ UNCHANGED <<script, calls, log, files, exc, exit, failures, i, response,
                   result, checks, loaderVars, edaVars>>

\* after the loop: the score and the summary
ComputeScore ==
    /\ script = "data_quality_check"
    /\ pc = "run_checks"
    /\ i > Len(Checks)
    /\ LET passed == passed_checks(checks)
           total == Len(checks)
           score == quality_score(passed, total)
       IN  /\ overall_score' = score
           /\ summary' = [total_checks |-> total, passed_checks |-> passed,
                          failed_checks |-> total - passed, quality_score |-> score]
    /\ pc' = "save_report"
    /\ UNCHANGED <<script, calls, log, files, exc, exit, failures, i, response,
                   result, checks, loaderVars, edaVars>>

\* SaveReport, had the write been wrapped in a handler that logs and carries on
SaveReport_swallowing_failure ==
    /\ script = "data_quality_check"
    /\ pc = "save_report"
    /\ \/ /\ files' = files \cup {"reports/data_quality_report.json"}
          /\ log' = log \o <<"report_saved", "quality_summary", tier(overall_score)>>
          /\ UNCHANGED <<exc, failures>>
       \/ /\ log' = log \o <<"save_error", "quality_summary", tier(overall_score)>>
          /\ failures' = failures \cup {"save_report"}
          /\ UNCHANGED <<exc, files>>
    /\ pc' = "main_return"
    /\ UNCHANGED <<script, calls, exit, dqVars, loaderVars, edaVars>>

\* os.makedirs, open, json.dump, then the summary log lines and return report;
\* or one of the three file operations raises and nothing below it runs
SaveReport ==
    /\ script = "data_quality_check"
    /\ pc = "save_report"
    /\ \/ /\ files' = files \cup {"reports/data_quality_report.json"}
          /\ log' = log \o <<"report_saved", "quality_summary", tier(overall_score)>>
          /\ pc' = "main_return"
          /\ UNCHANGED <<exc, failures>>
       \/ /\ exc' = "io_error"
          /\ failures' = failures \cup {"save_report"}
          /\ pc' = "main_except"
          /\ UNCHANGED <<log, files>>
    /\ UNCHANGED <<script, calls, exit, dqVars, loaderVars, edaVars>>

\* main: report = checker.generate_quality_report() returned
dq_main_return ==
    /\ script = "data_quality_check"
    /\ pc = "main_return"
    /\ log' = Append(log, "completed")
    /\ exit' = "ok"
    /\ pc' = "done"
    /\ UNCHANGED <<script, calls, files, exc, failures, dqVars, loaderVars, edaVars>>

\* main: except Exception as e: logger.error(...); raise
dq_main_except ==
    /\ script = "data_quality_check"
    /\ pc = "main_except"
    /\ log' = Append(log, "critical_error")
    /\ exit' = "raised"
    /\ pc' = "done"
    /\ UNCHANGED <<script, calls, files, exc, failures, dqVars, loaderVars, edaVars>>

----------------------------------------------------------------------------
(* load_data.py *)

NoJob == [state |-> "none", errors |-> <<>>]

\* create_bigquery_client: bigquery.Client(...) returns, or raises and is re-raised
create_bigquery_client ==
    /\ script = "load_data"
    /\ pc = "main"
    /\ calls' = Append(calls, "create_bigquery_client")
    /\ \/ /\ log' = Append(log, "client_created")
          /\ pc' = "create_dataset_and_table"
          /\ UNCHANGED <<exc, failures>>
       \/ /\ log' = Append(log, "client_error")
          /\ exc' = "client_error"
          /\ failures' = failures \cup {"create_client"}
          /\ pc' = "main_except"
    /\ UNCHANGED <<script, files, exit, dqVars, loaderVars, edaVars>>

\* create_dataset_and_table: client.create_dataset(...) returns, or raises and is
\* re-raised; the job configuration is built locally
create_dataset_and_table ==
    /\ script = "load_data"
    /\ pc = "create_dataset_and_table"
    /\ calls' = Append(calls, "create_dataset_and_table")
    /\ \/ /\ log' = log \o <<"dataset_created", "table_configured">>
          /\ pc' = "load_submit"
          /\ UNCHANGED <<exc, failures>>
       \/ /\ log' = Append(log, "dataset_error")
          /\ exc' = "dataset_error"
          /\ failures' = failures \cup {"create_dataset"}
          /\ pc' = "main_except"
    /\ UNCHANGED <<script, files, exit, dqVars, loaderVars, edaVars>>

\* load_data_from_gcs up to the poll loop: client.load_table_from_uri(...) hands
\* back a job, or raises and the function returns False
load_submit ==
    /\ script = "load_data"
    /\ pc = "load_submit"
    /\ calls' = calls \o <<"load_data_from_gcs", "load_table_from_uri">>
    /\ \/ /\ load_job' = [state |-> "PENDING", errors |-> <<>>]
          /\ log' = log \o <<"load_started", "monitoring">>
          /\ pc' = "load_poll"
          /\ UNCHANGED <<success, failures>>
       \/ /\ log' = log \o <<"load_started", "load_error">>
          /\ success' = "False"
          /\ failures' = failures \cup {"load_submit"}
          /\ pc' = "main_branch"
          /\ UNCHANGED load_job
    /\ UNCHANGED <<script, files, exc, exit, dqVars, polls, edaVars>>

\* the warehouse starts the job (the loader observes the job only while it polls)
job_runs ==
    /\ script = "load_data"
    /\ pc = "load_poll"
    /\ load_job.state = "PENDING"
    /\ load_job' = [load_job EXCEPT !.state = "RUNNING"]
    /\ UNCHANGED <<common, dqVars, success, polls, edaVars>>

\* the warehouse ends the job, with or without an error list
job_finishes ==
    /\ script = "load_data"
    /\ pc = "load_poll"
    /\ load_job.state \in {"PENDING", "RUNNING"}
    /\ \E errs \in {<<>>, <<"load_error_1">>} :
         load_job' = [state |-> "DONE", errors |-> errs]
    /\ UNCHANGED <<common, dqVars, success, polls, edaVars>>

\* load_poll, had the loop tested the job for having left PENDING instead of done()
load_poll_until_started ==
    /\ script = "load_data"
    /\ pc = "load_poll"
    /\ \/ /\ load_job.state = "PENDING"
          /\ polls' = Min(polls + 1, MaxPolls)
          /\ UNCHANGED <<pc, log, success, failures>>
       \/ /\ load_job.state # "PENDING"
          /\ pc' = "load_verify"
          /\ UNCHANGED <<log, success, failures, polls>>
       \/ /\ log' = Append(log, "load_error")
          /\ success' = "False"
          /\ failures' = failures \cup {"load_poll"}
          /\ pc' = "main_branch"
          /\ UNCHANGED polls
    /\ UNCHANGED <<script, calls, files, exc, exit, dqVars, load_job, edaVars>>

\* while not load_job.done(): time.sleep(30); log the state
load_poll ==
    /\ script = "load_data"
    /\ pc = "load_poll"
    /\ \/ /\ load_job.state # "DONE"                      \* done() is False: sleep
          /\ polls' = Min(polls + 1, MaxPolls)
          /\ UNCHANGED <<pc, log, success, failures>>
       \/ /\ load_job.state = "DONE"                      \* done() is True: leave
          /\ pc' = "load_verify"
          /\ UNCHANGED <<log, success, failures, polls>>
       \/ /\ log' = Append(log, "load_error")             \* done() raises
          /\ success' = "False"
          /\ failures' = failures \cup {"load_poll"}
          /\ pc' = "main_branch"
          /\ UNCHANGED polls
    /\ UNCHANGED <<script, calls, files, exc, exit, dqVars, load_job, edaVars>>

\* load_verify, had the code not looked at load_job.errors
load_verify_ignoring_errors ==
    /\ script = "load_data"
    /\ pc = "load_verify"
    /\ pc' = "load_stats"
    /\ UNCHANGED <<script, calls, log, files, exc, exit, failures, dqVars, loaderVars,
                   edaVars>>

\* if load_job.errors: log them and return False
load_verify ==
    /\ script = "load_data"
    /\ pc = "load_verify"
    /\ IF load_job.errors # <<>>
       THEN /\ log' = Append(log, "load_errors")
            /\ success' = "False"
            /\ failures' = failures \cup {"load_job"}
            /\ pc' = "main_branch"
       ELSE /\ pc' = "load_stats"
            /\ UNCHANGED <<log, success, failures>>
    /\ UNCHANGED <<script, calls, files, exc, exit, dqVars, load_job, polls, edaVars>>

\* table = client.get_table(table_id); log the statistics; return True --
\* or get_table raises, inside the function's try, and it returns False
load_stats ==
    /\ script = "load_data"
    /\ pc = "load_stats"
    /\ calls' = Append(calls, "get_table")
    /\ \/ /\ log' = Append(log, "load_completed")
          /\ success' = "True"
          /\ UNCHANGED failures
       \/ /\ log' = Append(log, "load_error")
          /\ success' = "False"
          /\ failures' = failures \cup {"get_table"}
    /\ pc' = "main_branch"
    /\ UNCHANGED <<script, files, exc, exit, dqVars, load_job, polls, edaVars>>

\* main_branch, had main submitted the load again after a failed load
main_branch_retrying ==
    /\ script = "load_data"
    /\ pc = "main_branch"
    /\ pc' = IF success = "True" THEN "validate" ELSE "load_submit"
    /\ UNCHANGED <<script, calls, log, files, exc, exit, failures, dqVars, loaderVars,
                   edaVars>>

\* main: if success: ... else: logger.error("Fallo en el proceso de carga")
main_branch ==
    /\ script = "load_data"
    /\ pc = "main_branch"
    /\ IF success = "True"
       THEN /\ pc' = "validate"
            /\ UNCHANGED <<log, exit>>
       ELSE /\ log' = Append(log, "process_failed")
            /\ exit' = "ok"
            /\ pc' = "done"
    /\ UNCHANGED <<script, calls, files, exc, failures, dqVars, loaderVars, edaVars>>

\* validate_data_quality: the query and get_table return, or one raises and the
\* function returns False; main ignores the value it returns
validate_data_quality ==
    /\ script = "load_data"
    /\ pc = "validate"
    /\ calls' = Append(calls, "validate_data_quality")
    /\ \/ /\ log' = log \o <<"validating", "table_summary">>
          /\ UNCHANGED failures
       \/ /\ log' = log \o <<"validating", "validation_error">>
          /\ failures' = failures \cup {"validate"}
    /\ pc' = "main_return"
    /\ UNCHANGED <<script, files, exc, exit, dqVars, loaderVars, edaVars>>

\* main: logger.info("Proceso de carga completado exitosamente!") and return
load_main_return ==
    /\ script = "load_data"
    /\ pc = "main_return"
    /\ log' = Append(log, "process_completed")
    /\ exit' = "ok"
    /\ pc' = "done"
    /\ UNCHANGED <<script, calls, files, exc, failures, dqVars, loaderVars, edaVars>>

\* main: except Exception as e: logger.error(...); raise
load_main_except ==
    /\ script = "load_data"
    /\ pc = "main_except"
    /\ log' = Append(log, "critical_error")
    /\ exit' = "raised"
    /\ pc' = "done"
    /\ UNCHANGED <<script, calls, files, exc, failures, dqVars, loaderVars, edaVars>>

----------------------------------------------------------------------------
(* eda_analysis.py *)

\* columns[:10], for a table of n columns
scanned_columns(n) == 1..Min(n, ColumnScanLimit)

\* the keys generate_summary_report puts into the report
report_keys(overview, schema, quality) ==
    {"timestamp", "project_id", "dataset", "table"}
    \cup (IF overview THEN {"data_overview"} ELSE {})
    \cup (IF schema THEN {"schema"} ELSE {})
    \cup (IF quality # {} THEN {"data_quality"} ELSE {})

\* SteelCompanyEDA.__init__: bigquery.Client(...) returns, or raises and is re-raised
SteelCompanyEDA_init ==
    /\ script = "eda_analysis"
    /\ pc = "main"
    /\ calls' = Append(calls, "SteelCompanyEDA.__init__")
    /\ \/ /\ log' = Append(log, "client_initialized")
          /\ pc' = "get_data_overview"
          /\ UNCHANGED <<exc, failures>>
       \/ /\ log' = Append(log, "init_error")
          /\ exc' = "client_error"
          /\ failures' = failures \cup {"client"}
          /\ pc' = "main_except"
    /\ UNCHANGED <<script, files, exit, dqVars, loaderVars, edaVars>>

\* step 1: the query returns a row, or something in the try block raises and the
\* function logs it and returns None
get_data_overview ==
    /\ script = "eda_analysis"
    /\ pc = "get_data_overview"
    /\ calls' = Append(calls, "get_data_overview")
    /\ \/ /\ log' = Append(log, "overview")
          /\ UNCHANGED failures
       \/ /\ log' = Append(log, "overview_error")
          /\ failures' = failures \cup {"get_data_overview"}
    /\ pc' = "analyze_schema"
    /\ UNCHANGED <<script, files, exc, exit, dqVars, loaderVars, edaVars>>

\* step 2: get_table returns the schema, or raises and the function returns None
analyze_schema ==
    /\ script = "eda_analysis"
    /\ pc = "analyze_schema"
    /\ calls' = Append(calls, "analyze_schema")
    /\ \/ /\ log' = Append(log, "schema")
          /\ UNCHANGED failures
       \/ /\ log' = Append(log, "schema_error")
          /\ failures' = failures \cup {"analyze_schema"}
    /\ pc' = "analyze_temporal_patterns"
    /\ UNCHANGED <<script, files, exc, exit, dqVars, loaderVars, edaVars>>

\* step 3: the query and both plots succeed; or the query raises; or a plot fails
\* before or after the first image is saved -- all inside the function's try
analyze_temporal_patterns ==
    /\ script = "eda_analysis"
    /\ pc = "analyze_temporal_patterns"
    /\ calls' = Append(calls, "analyze_temporal_patterns")
    /\ \/ /\ files' = files \cup {"notebooks/temporal_patterns.png",
                                  "notebooks/monthly_patterns.png"}
          /\ log' = Append(log, "temporal_saved")
          /\ UNCHANGED failures
       \/ /\ log' = Append(log, "temporal_error")
          /\ failures' = failures \cup {"analyze_temporal_patterns"}
          /\ UNCHANGED files
       \/ /\ \E saved \in {{}, {"notebooks/temporal_patterns.png"}} :
                /\ files' = files \cup saved
                /\ log' = IF saved = {} THEN Append(log, "temporal_error")
                          ELSE log \o <<"temporal_saved", "temporal_error">>
          /\ failures' = failures \cup {"plot"}
    /\ pc' = "analyze_data_quality"
    /\ UNCHANGED <<script, exc, exit, dqVars, loaderVars, edaVars>>

\* step 4: get_table is called outside any try; then one query per column of
\* columns[:10], each in its own try (a failing column is skipped); the caller
\* drops the metrics returned
analyze_data_quality ==
    /\ script = "eda_analysis"
    /\ pc = "analyze_data_quality"
    /\ calls' = Append(calls, "analyze_data_quality")
    /\ \/ /\ exc' = "warehouse_error"                     \* get_table raises
          /\ failures' = failures \cup {"analyze_data_quality"}
          /\ pc' = "run_except"
          /\ UNCHANGED <<log, quality_metrics>>
       \/ \E n \in 0..MaxCols : \E bad \in SUBSET scanned_columns(n) :
             /\ log' = IF bad = {} THEN log ELSE Append(log, "column_warning")
             /\ failures' = IF bad = {} THEN failures
                            ELSE failures \cup {"column_scan"}
             /\ pc' = "generate_summary_report"
             /\ UNCHANGED <<exc, quality_metrics>>
    /\ UNCHANGED <<script, files, exit, dqVars, loaderVars, eda_report>>

\* step 5: generate_summary_report calls get_data_overview, analyze_schema and
\* analyze_data_quality again, then writes notebooks/eda_summary_report.json
generate_summary_report ==
    /\ script = "eda_analysis"
    /\ pc = "generate_summary_report"
    /\ calls' = calls \o <<"generate_summary_report", "get_data_overview",
                           "analyze_schema", "analyze_data_quality">>
    /\ \E overview \in BOOLEAN, schema \in BOOLEAN :
         LET sub == (IF overview THEN {} ELSE {"get_data_overview"})
                    \cup (IF schema THEN {} ELSE {"analyze_schema"})
         IN
         \/ /\ exc' = "warehouse_error"                   \* get_table raises
            /\ failures' = failures \cup sub \cup {"analyze_data_quality"}
            /\ pc' = "run_except"
            /\ UNCHANGED <<log, files, quality_metrics, eda_report>>
         \/ \E n \in 0..MaxCols : \E bad \in SUBSET scanned_columns(n) :
              /\ quality_metrics' = scanned_columns(n) \ bad
              /\ \/ /\ files' = files \cup {"notebooks/eda_summary_report.json"}
                    /\ eda_report' = report_keys(overview, schema /\ n > 0,
                                                 scanned_columns(n) \ bad)
                    /\ log' = Append(log, "summary_saved")
                    /\ failures' = failures \cup sub
                                   \cup (IF bad = {} THEN {} ELSE {"column_scan"})
                    /\ pc' = "run_return"
                    /\ UNCHANGED exc
                 \/ /\ exc' = "io_error"                   \* open / json.dump raises
                    /\ failures' = failures \cup sub \cup {"write_summary"}
                                   \cup (IF bad = {} THEN {} ELSE {"column_scan"})
                    /\ pc' = "run_except"
                    /\ UNCHANGED <<log, files, eda_report>>
    /\ UNCHANGED <<script, exit, dqVars, loaderVars>>

\* run_complete_eda logs completion and returns; main returns
eda_main_return ==
    /\ script = "eda_analysis"
    /\ pc = "run_return"
    /\ log' = Append(log, "eda_completed")
    /\ exit' = "ok"
    /\ pc' = "done"
    /\ UNCHANGED <<script, calls, files, exc, failures, dqVars, loaderVars, edaVars>>

\* run_complete_eda: except Exception as e: logger.error(...); raise
run_complete_eda_except ==
    /\ script = "eda_analysis"
    /\ pc = "run_except"
    /\ log' = Append(log, "eda_error")
    /\ pc' = "main_except"
    /\ UNCHANGED <<script, calls, files, exc, exit, failures, dqVars, loaderVars,
                   edaVars>>

\* main: except Exception as e: logger.error(...); raise
eda_main_except ==
    /\ script = "eda_analysis"
    /\ pc = "main_except"
    /\ log' = Append(log, "critical_error")
    /\ exit' = "raised"
    /\ pc' = "done"
    /\ UNCHANGED <<script, calls, files, exc, failures, dqVars, loaderVars, edaVars>>

----------------------------------------------------------------------------
(* The specification *)

Scripts == {"data_quality_check", "load_data", "eda_analysis"}

Init ==
    /\ script \in Scripts
    /\ pc = "main"
    /\ calls = <<>>
    /\ log = <<>>
    /\ files = {}
    /\ exc = "none"
    /\ exit = "running"
    /\ failures = {}
    /\ i = 1
    /\ response = [kind |-> "none"]
    /\ result = "none"
    /\ checks = <<>>
    /\ overall_score = -1
    /\ summary = NoSummary
    /\ load_job = NoJob
    /\ success = "unset"
    /\ polls = 0
    /\ quality_metrics = {}
    /\ eda_report = {}

Next ==
    \/ DataQualityChecker_init
    \/ CallCheck
    \/ CallCheckRaises
    \/ RecordResult
    \/ ComputeScore
    \/ SaveReport
    \/ dq_main_return
    \/ dq_main_except
    \/ create_bigquery_client
    \/ create_dataset_and_table
    \/ load_submit
    \/ job_runs
    \/ job_finishes
    \/ load_poll
    \/ load_verify
    \/ load_stats
    \/ main_branch
    \/ validate_data_quality
    \/ load_main_return
    \/ load_main_except
    \/ SteelCompanyEDA_init
    \/ get_data_overview
    \/ analyze_schema
    \/ analyze_temporal_patterns
    \/ analyze_data_quality
    \/ generate_summary_report
    \/ eda_main_return
    \/ run_complete_eda_except
    \/ eda_main_except

Spec == Init /\ [][Next]_vars

----------------------------------------------------------------------------
(* Properties of generate_quality_report *)

StatusesOf(chk) == {chk[k].status : k \in 1..Len(chk)}

CountStatus(chk, st) == Cardinality({k \in 1..Len(chk) : chk[k].status = st})

\* the run has computed its score (the loop over the checks is behind it)
Scored == script = "data_quality_check" /\ overall_score # -1

\* the loop over the checks has ended
LoopEnded ==
    /\ script = "data_quality_check"
    /\ \/ pc = "run_checks" /\ i > Len(Checks)
       \/ pc \in {"save_report", "main_return"}
       \/ Scored

\* C1: whatever the checks did (pass, fail, raise), the report holds exactly one
\* result per registered check (four), in registration order, and overall_score
\* is 100 * passed / N, passed counting the results with status 'passed'.
C1_OneResultPerCheckAndScore ==
    Scored =>
        /\ Len(checks) = 4
        /\ Len(checks) = Len(Checks)
        /\ \A k \in 1..Len(checks) : checks[k].name = Checks[k]
        /\ overall_score * Len(Checks) = 100 * CountStatus(checks, "passed")

\* C1 witness: a scored report with a passed, a failed and an error result
C1_Witness ==
    /\ Scored
    /\ StatusesOf(checks) = {"passed", "failed", "error"}
    /\ overall_score = 50

\* C2: an exception raised while check k is evaluated never keeps the checks
\* after it from being evaluated and recorded: once the loop has ended, every
\* registered check was called and has its entry in report['checks'].
C2_LaterChecksStillRun ==
    LoopEnded =>
        \A k \in 1..Len(Checks) :
            /\ \E c \in 1..Len(calls) : calls[c] = Checks[k]
            /\ \E j \in 1..Len(checks) : checks[j].name = Checks[k]

\* C2 witness: the first check raised, its query failed in the second, and the
\* two checks after them have their entries all the same
C2_Witness ==
    /\ LoopEnded
    /\ Len(checks) = Len(Checks)
    /\ checks[1].status = "error"
    /\ {"data_freshness", "data_completeness"} \subseteq failures
    /\ checks[4].name = "dbt_models"

\* C3 (as claimed): an exception raised inside a quality check, such as its
\* warehouse query failing, is recorded for that check as status 'error' with the
\* exception's message.
C3_QueryFailureRecordedAsError ==
    script = "data_quality_check" =>
        \A k \in 1..Len(checks) :
            checks[k].name \in failures =>
                checks[k].status = "error" /\ checks[k].error # Absent

\* C7: when writing the report file fails, the failure is not swallowed: the
\* error propagates out of generate_quality_report, 'report saved' is not logged,
\* no report file exists, and main re-raises, ending the process non-zero.
C7_WriteFailurePropagates ==
    (script = "data_quality_check" /\ "save_report" \in failures) =>
        /\ exc = "io_error"
        /\ pc \in {"main_except", "done"}
        /\ \A k \in 1..Len(log) : log[k] \notin {"report_saved", "completed"}
        /\ files = {}
        /\ exit # "ok"
        /\ pc = "done" => exit = "raised" /\ log[Len(log)] = "critical_error"

\* C7 witness: the write failed and the process has ended
C7_Witness ==
    /\ script = "data_quality_check"
    /\ "save_report" \in failures
    /\ pc = "done"
    /\ exit = "raised"

----------------------------------------------------------------------------
(* Properties of the individual checks *)

\* the check whose result is about to be recorded
Evaluated(check_name) ==
    /\ script = "data_quality_check"
    /\ pc = "record"
    /\ Checks[i] = check_name

\* the fraction valid / total is strictly above 95%
Above95(valid, total) == 100 * valid > 95 * total

\* C9 (as claimed): check_data_completeness passes exactly when each of the
\* three fields it measures (partition timestamp, file name, file load time) is
\* non-null in strictly more than 95% of the records.
C9_CompletenessAllThreeFields ==
    (Evaluated("data_completeness") /\ response.kind = "row"
        /\ response.total_records > 0) =>
        (result = "True" <=>
            /\ Above95(response.valid_timestamps, response.total_records)
            /\ Above95(response.valid_filenames, response.total_records)
            /\ Above95(response.valid_loadtimes, response.total_records))

\* the daily record counts of the window
DailyRecords(df) == [k \in 1..Len(df) |-> df[k].daily_records]

SumSquares(xs) == SumSeq([k \in 1..Len(xs) |-> xs[k] * xs[k]])

\* stddev / mean * 100 < 50 for the sample standard deviation, which needs two
\* rows: 4 * n * (n * sum(x^2) - sum(x)^2) < (n - 1) * sum(x)^2
CVBelow50(xs) ==
    LET n == Len(xs)
        S == SumSeq(xs)
    IN  /\ n >= 2
        /\ 4 * n * (n * SumSquares(xs) - S * S) < (n - 1) * S * S

\* C10: check_data_consistency is recorded 'passed' exactly when the window of
\* daily record counts is non-empty and its coefficient of variation is strictly
\* below 50; 50 or more, and an empty window, are recorded 'failed' (never
\* 'error').  The moving_avg_7d column has no part in it.
C10_ConsistencyVerdict ==
    [][(Evaluated("data_consistency") /\ response.kind = "df" /\ pc' = "run_checks") =>
        /\ Len(checks') = Len(checks) + 1
        /\ checks'[Len(checks')].name = "data_consistency"
        /\ checks'[Len(checks')].status =
             IF Len(response.df) > 0 /\ CVBelow50(DailyRecords(response.df))
             THEN "passed" ELSE "failed"]_vars

\* C10 witness: a three-day window whose coefficient of variation is exactly 50
\* (counts 1, 2, 3) has been evaluated, and the check returned False
C10_Witness ==
    /\ Evaluated("data_consistency")
    /\ response.kind = "df"
    /\ DailyRecords(response.df) = <<1, 2, 3>>
    /\ result = "False"

----------------------------------------------------------------------------
(* Properties of the loader pipeline *)

Called(f) == \E c \in 1..Len(calls) : calls[c] = f

Logged(tag) == \E k \in 1..Len(log) : log[k] = tag

\* the poll loop saw done() true, and the job carries this error list
JobEndedWith(errs) ==
    /\ script = "load_data"
    /\ load_job.state = "DONE"
    /\ load_job.errors = errs
    /\ pc \notin {"load_poll"}
    /\ "load_poll" \notin failures

\* C4: when the job ends with a non-empty error list, load_data_from_gcs returns
\* False and validate_data_quality is never called in the run; and validation is
\* called only after the load step reported success.
C4_NoValidationAfterFailedLoad ==
    /\ (script = "load_data" /\ load_job.state = "DONE" /\ load_job.errors # <<>>) =>
            /\ ~Called("validate_data_quality")
            /\ pc # "validate"
            /\ success # "True"
            /\ pc \in {"main_branch", "done"} => success = "False"
    /\ (script = "load_data" /\ (pc = "validate" \/ Called("validate_data_quality"))) =>
            success = "True"

\* C4 witness: the job ended with errors and the run is over
C4_Witness ==
    /\ JobEndedWith(<<"load_error_1">>)
    /\ pc = "done"
    /\ success = "False"

\* C5 (as claimed): whenever the job ends with an empty error list, the success
\* flag load_data_from_gcs returns is true and validation runs, whatever a later
\* warehouse call does.
C5_SuccessAfterCleanLoad ==
    (JobEndedWith(<<>>) /\ pc \in {"main_branch", "validate", "main_return", "done"}) =>
        /\ success = "True"
        /\ pc = "done" => Called("validate_data_quality")

\* C6 (as claimed): any failure of a step of the loader pipeline ends main with a
\* propagated exception: main never returns normally, nor logs overall success,
\* after one.
C6_LoaderFailureIsFatal ==
    (script = "load_data" /\ failures # {}) =>
        /\ exit # "ok"
        /\ ~Logged("process_completed")
        /\ pc = "done" => exit = "raised"

----------------------------------------------------------------------------
(* Properties of run_complete_eda *)

\* the warehouse calls that failed in the run, if any, are the only failures
OnlyWarehouseFailures ==
    failures \cap {"client", "plot", "write_summary"} = {}

\* C8 (as claimed): every step of run_complete_eda is best-effort: a warehouse
\* failure in a step does not keep the later steps from running, so the summary
\* step is always reached and the summary JSON is written.
C8_EdaStepsBestEffort ==
    (script = "eda_analysis" /\ pc = "done" /\ OnlyWarehouseFailures) =>
        /\ Called("generate_summary_report")
        /\ "notebooks/eda_summary_report.json" \in files
        /\ exit = "ok"

----------------------------------------------------------------------------
(* Properties of check_dbt_models and check_data_freshness *)

\* the entry the recording step appends to report['checks']
Recorded(check_name, status) ==
    /\ Len(checks') = Len(checks) + 1
    /\ checks'[Len(checks')].name = check_name
    /\ checks'[Len(checks')].status = status

\* table k of models_to_check answered with a row count above zero
HasRows(resp, k) == resp.tables[k].kind = "row" /\ resp.tables[k].record_count >= 1

\* C11: check_dbt_models passes only if each of the three named tables reports a
\* non-zero row count; a table whose query fails counts as zero rows, the other
\* tables are still queried, and the check returns False (recorded 'failed')
\* instead of raising.
C11_DbtModelsVerdict ==
    [][(Evaluated("dbt_models") /\ response.kind = "models" /\ pc' = "run_checks") =>
        /\ DOMAIN response.tables = 1..3
        /\ models_to_check =
             <<"stg_cdo_challenge", "int_daily_metrics", "mart_business_insights">>
        /\ result \in {"True", "False"}
        /\ result = "True" <=> \A k \in 1..3 : HasRows(response, k)
        /\ Recorded("dbt_models",
                    IF \A k \in 1..3 : HasRows(response, k) THEN "passed"
                    ELSE "failed")]_vars

\* C11 witness: the query of the first table failed, the two others were queried
\* and have rows, and the check returned False
C11_Witness ==
    /\ Evaluated("dbt_models")
    /\ response.kind = "models"
    /\ response.tables[1].kind = "raise"
    /\ HasRows(response, 2)
    /\ HasRows(response, 3)
    /\ result = "False"

\* C12: check_data_freshness passes exactly when the hours since the last
\* update are strictly less than 24 (23 passes, 24 and more fail), and the
\* verdict is recorded as 'passed' or 'failed' accordingly.
C12_FreshnessVerdict ==
    [][(Evaluated("data_freshness") /\ response.kind = "row" /\ pc' = "run_checks") =>
        /\ result = "True" <=> response.hours_since_update <= 23
        /\ Recorded("data_freshness",
                    IF response.hours_since_update >= 24 THEN "failed"
                    ELSE "passed")]_vars

\* C12 witness: the warehouse reported exactly 24 hours and the check returned False
C12_Witness ==
    /\ Evaluated("data_freshness")
    /\ response.kind = "row"
    /\ response.hours_since_update = 24
    /\ result = "False"

----------------------------------------------------------------------------
(* Order of the loader's steps *)

\* the calls of a complete run of load_data.py's main, in order
LoaderOrder ==
    <<"create_bigquery_client", "create_dataset_and_table", "load_data_from_gcs",
      "load_table_from_uri", "get_table", "validate_data_quality">>

IsPrefix(s, t) == Len(s) <= Len(t) /\ \A k \in 1..Len(s) : s[k] = t[k]

TimesCalled(f) == Cardinality({c \in 1..Len(calls) : calls[c] = f})

\* C13: in every run of the loader's main the steps come strictly in order
\* (client, dataset and table, load submitted, load succeeded or failed,
\* validation), none skipped, reordered or repeated: the load is submitted at
\* most once and validation is called at most once.
C13_LoaderStepsInOrder ==
    script = "load_data" =>
        /\ IsPrefix(calls, LoaderOrder)
        /\ TimesCalled("load_table_from_uri") <= 1
        /\ TimesCalled("validate_data_quality") <= 1
        /\ load_job.state # "none" => Called("load_table_from_uri")
        /\ success # "unset" => Called("load_table_from_uri")
        /\ Called("validate_data_quality") =>
             load_job.state = "DONE" /\ success = "True"

\* C13 witness: a complete run, every step called once and in order
C13_Witness ==
    /\ script = "load_data"
    /\ pc = "done"
    /\ calls = LoaderOrder

----------------------------------------------------------------------------
(* The loader alone, with the fairness its termination rests on: the script *)
(* is sequential, so its next step is eventually taken, and the job is      *)
(* assumed to end eventually.  Without that assumption the loader may poll  *)
(* forever: LoaderTerminates fails under LoaderUnfairJobSpec.               *)

LoaderInit == Init /\ script = "load_data"

LoaderStep ==
    \/ create_bigquery_client
    \/ create_dataset_and_table
    \/ load_submit
    \/ load_poll
    \/ load_verify
    \/ load_stats
    \/ main_branch
    \/ validate_data_quality
    \/ load_main_return
    \/ load_main_except

LoaderNext == LoaderStep \/ job_runs \/ job_finishes

\* a step of the script other than staying in, or being thrown out of, the poll
\* loop: fairness must not oblige done() to raise
LoaderProgress == LoaderStep /\ (pc = "load_poll" => pc' = "load_verify")

LoaderFairSpec ==
    /\ LoaderInit
    /\ [][LoaderNext]_vars
    /\ WF_vars(LoaderProgress)
    /\ WF_vars(job_finishes)

\* the same without the assumption that the job ends
LoaderUnfairJobSpec ==
    /\ LoaderInit
    /\ [][LoaderNext]_vars
    /\ WF_vars(LoaderProgress)

LoaderTerminates == script = "load_data" => <>(pc = "done")

\* C14 (as claimed): while the job has not reported done, the poll loop is not
\* left.
C14_LoopNeverExitsBeforeDone ==
    [][(script = "load_data" /\ pc = "load_poll" /\ load_job.state # "DONE") =>
        pc' = "load_poll"]_vars

\* C14 (amended): the error list is inspected, and the function proceeds, only
\* after done() was seen true; the poll loop is left only by done() being true or
\* by a call inside it raising, on which the function returns False (there is no
\* timeout and no cancellation); and if the job eventually ends, the loader
\* eventually terminates.
C14_PollUntilDoneOrRaise ==
    /\ []((script = "load_data"
            /\ (pc \in {"load_verify", "load_stats", "validate", "main_return"}
                \/ Called("get_table") \/ Logged("load_errors")
                \/ success = "True"))
          => load_job.state = "DONE")
    /\ [][(script = "load_data" /\ pc = "load_poll" /\ pc' # "load_poll") =>
            \/ load_job.state = "DONE" /\ pc' = "load_verify" /\ UNCHANGED failures
            \/ /\ pc' = "main_branch"
               /\ success' = "False"
               /\ "load_poll" \in failures']_vars
    /\ (script = "load_data" => <>(pc = "done"))

\* C14 witness: the loop waited, then saw done() true and went on to the error list
C14_Witness ==
    /\ script = "load_data"
    /\ pc = "load_verify"
    /\ polls >= 1
    /\ load_job.state = "DONE"

----------------------------------------------------------------------------
(* Invariants of the report *)

\* C15: in every report each status is 'passed', 'failed' or 'error';
\* total_checks is the number of results; passed_checks <= total_checks;
\* failed_checks = total_checks - passed_checks, so the results with status
\* 'error' are counted in failed_checks; and overall_score lies in [0, 100].
C15_ReportInvariants ==
    /\ script = "data_quality_check" =>
          StatusesOf(checks) \subseteq {"passed", "failed", "error"}
    /\ Scored =>
          /\ summary.total_checks = Len(checks)
          /\ summary.passed_checks = CountStatus(checks, "passed")
          /\ summary.passed_checks <= summary.total_checks
          /\ summary.failed_checks = summary.total_checks - summary.passed_checks
          /\ summary.failed_checks =
                CountStatus(checks, "failed") + CountStatus(checks, "error")
          /\ overall_score >= 0
          /\ overall_score <= 100
          /\ summary.quality_score = overall_score

\* C15 witness: a scored report with an 'error' result, counted in failed_checks
C15_Witness ==
    /\ Scored
    /\ CountStatus(checks, "error") = 2
    /\ CountStatus(checks, "failed") = 1
    /\ summary.failed_checks = 3
    /\ overall_score = 25

====
